---- MODULE Spec2Model ----
(***************************************************************************)
(* Bento Browse: the import pipeline (CsvImport.jsx), the search and       *)
(* ranking of the product list (App.jsx) and the upload life cycle of the  *)
(* App component.                                                          *)
(*                                                                         *)
(* A JavaScript string is a sequence of characters; a character is a       *)
(* one-character TLA+ string, except the two combining marks that NFD      *)
(* produces, which are written "U+0308" and "U+030A".  An object is a      *)
(* function from its keys (strings, so sequences) to its values.           *)
(***************************************************************************)
EXTENDS Integers, Sequences, FiniteSets, TLC

VARIABLES
    search,             \* App: const [search, setSearch] = useState("")
    products,           \* App: const [products, setProducts] = useState([])
    filtered,           \* App: the memoized filtered list of the last render
    mode,               \* the mode the last render of filtered chose ("idle": no query)
    uploadInProgress,   \* App: useState(false)
    showResults,        \* App: useState(false)
    warningMessage,     \* App: useState(""), <<>> or <<text, missing fields>>
    errorMessage,       \* App: useState(""), <<>> or <<text, err.message>>
    successTrigger,     \* App: useState(0), then Date.now() of each call: a fresh number
    spinnerTimeoutRef,  \* App: useRef(), 0 for undefined, else a timer id
    timers,             \* the pending setTimeout callbacks of handleCsvData, oldest first
    validation,         \* CsvImport: useState(null)
    uploads,            \* the files picked in the file input so far, in order
    reads,              \* the uploads whose FileReader has not called onload yet
    onDataCalls,        \* the calls of onData so far: <<upload, rows>>
    commits,            \* the uploads whose rows setProducts was called with, in order
    header,             \* SpecHeader: a column header under edit
    headerMap,          \* SpecHeader: mapFields of that one header
    edits,              \* SpecHeader: the number of edits made to header
    selectedProduct,    \* App: useState(null), the record object of the detail view
    relevant,           \* ProductDetail: getRelevantProducts(product, allProducts)
    schema,             \* SpecAlias: the declared fields, in declaration order
    aliases             \* SpecAlias: the alias table built from schema

searchVars == <<search, products, filtered, mode>>
appVars == <<uploadInProgress, showResults, warningMessage, errorMessage, successTrigger,
             spinnerTimeoutRef, timers, validation, uploads, reads, onDataCalls,
             commits>>
headerVars == <<header, headerMap, edits>>
detailVars == <<selectedProduct, relevant>>
aliasVars == <<schema, aliases>>
vars == <<searchVars, appVars, headerVars, detailVars, aliasVars>>

(***************************************************************************)
(* Characters                                                              *)
(***************************************************************************)
LowerAscii == <<"a","b","c","d","e","f","g","h","i","j","k","l","m",
                "n","o","p","q","r","s","t","u","v","w","x","y","z">>
UpperAscii == <<"A","B","C","D","E","F","G","H","I","J","K","L","M",
                "N","O","P","Q","R","S","T","U","V","W","X","Y","Z">>
\* the precomposed Swedish letters of the schema, lower and upper case
LowerSwedish == <<"ä", "ö", "å">>
UpperSwedish == <<"Ä", "Ö", "Å">>
\* the base letter and the combining mark of each precomposed letter (NFD)
BaseOfSwedish == <<"a", "o", "a">>
MarkOfSwedish == <<"U+0308", "U+0308", "U+030A">>

Range(s) == { s[i] : i \in DOMAIN s }
IndexIn(s, c) == CHOOSE i \in DOMAIN s : s[i] = c

Digits == {"0","1","2","3","4","5","6","7","8","9"}
\* regular expression class \d (no u flag: ASCII digits)
ReDigit(c) == c \in Digits
\* regular expression class \w (no u flag: ASCII letters, digits, underscore)
ReWord(c) == c \in Range(LowerAscii) \cup Range(UpperAscii) \cup Digits \cup {"_"}
\* regular expression class \s, as far as the model's characters go
ReSpace(c) == c \in {" ", "\t"}
\* the range U+0300..U+036F of combining diacritical marks
ReCombining(c) == c \in Range(MarkOfSwedish)

\* String.prototype.toLowerCase on one character
LowerChar(c) ==
    IF c \in Range(UpperAscii) THEN LowerAscii[IndexIn(UpperAscii, c)]
    ELSE IF c \in Range(UpperSwedish) THEN LowerSwedish[IndexIn(UpperSwedish, c)]
    ELSE c

\* String.prototype.normalize("NFD") on one character
NfdChar(c) ==
    IF c \in Range(LowerSwedish)
    THEN <<BaseOfSwedish[IndexIn(LowerSwedish, c)], MarkOfSwedish[IndexIn(LowerSwedish, c)]>>
    ELSE IF c \in Range(UpperSwedish)
    THEN <<UpperAscii[IndexIn(LowerAscii, BaseOfSwedish[IndexIn(UpperSwedish, c)])],
           MarkOfSwedish[IndexIn(UpperSwedish, c)]>>
    ELSE <<c>>

(***************************************************************************)
(* Strings                                                                 *)
(***************************************************************************)
\* String.prototype.toLowerCase
toLowerCase(s) == [i \in DOMAIN s |-> LowerChar(s[i])]

RECURSIVE normalizeNFD(_)
normalizeNFD(s) == IF s = <<>> THEN <<>> ELSE NfdChar(Head(s)) \o normalizeNFD(Tail(s))

\* s.replace(/[\u0300-\u036f]/g, "")
RECURSIVE RemoveCombining(_)
RemoveCombining(s) ==
    IF s = <<>> THEN <<>>
    ELSE IF ReCombining(Head(s)) THEN RemoveCombining(Tail(s))
    ELSE <<Head(s)>> \o RemoveCombining(Tail(s))

\* s.replace(/[^\w\d]/g, " ")
NonWordToSpace(s) == [i \in DOMAIN s |-> IF ReWord(s[i]) \/ ReDigit(s[i]) THEN s[i] ELSE " "]

\* s.replace(/\s+/g, " "): every maximal run of white space becomes one space
RECURSIVE CollapseSpaces(_)
CollapseSpaces(s) ==
    IF s = <<>> THEN <<>>
    ELSE IF ReSpace(Head(s))
         THEN IF Len(s) > 1 /\ ReSpace(s[2])
              THEN CollapseSpaces(Tail(s))
              ELSE <<" ">> \o CollapseSpaces(Tail(s))
         ELSE <<Head(s)>> \o CollapseSpaces(Tail(s))

\* String.prototype.trim
RECURSIVE trimStart(_)
trimStart(s) == IF s # <<>> /\ ReSpace(Head(s)) THEN trimStart(Tail(s)) ELSE s
RECURSIVE trimEnd(_)
trimEnd(s) == IF s # <<>> /\ ReSpace(s[Len(s)]) THEN trimEnd(SubSeq(s, 1, Len(s) - 1)) ELSE s
trim(s) == trimEnd(trimStart(s))

\* String.prototype.includes
includes(s, q) == \E i \in 0..(Len(s) - Len(q)) : SubSeq(s, i + 1, i + Len(q)) = q

\* s.split(" "): the pieces between single spaces, empty pieces kept
RECURSIVE SplitFrom(_, _)
SplitFrom(s, cur) ==
    IF s = <<>> THEN <<cur>>
    ELSE IF Head(s) = " " THEN <<cur>> \o SplitFrom(Tail(s), <<>>)
    ELSE SplitFrom(Tail(s), Append(cur, Head(s)))
split(s) == SplitFrom(s, <<>>)

\* Array.prototype.filter(Boolean) on strings: the empty string is falsy
RECURSIVE filterBoolean(_)
filterBoolean(ws) ==
    IF ws = <<>> THEN <<>>
    ELSE IF Head(ws) = <<>> THEN filterBoolean(Tail(ws))
    ELSE <<Head(ws)>> \o filterBoolean(Tail(ws))

(***************************************************************************)
(* The canonical schema (CsvImport.jsx)                                    *)
(***************************************************************************)
PRODUCT_FIELDS ==
  << <<"N", "a", "m", "n">>,
     <<"A", "r", "t", "i", "k", "e", "l", "n", "u", "m", "m", "e", "r">>,
     <<"F", "ä", "r", "g">>,
     <<"M", "a", "t", "e", "r", "i", "a", "l">>,
     <<"S", "e", "r", "i", "e">>,
     <<"P", "r", "i", "s", " ", "e", "x", "k", "l", ".", " ", "m", "o", "m", "s", " ", "(", "v", "ä", "r", "d", "e", ")">>,
     <<"P", "r", "i", "s", " ", "e", "x", "k", "l", ".", " ", "m", "o", "m", "s", " ", "(", "e", "n", "h", "e", "t", ")">>,
     <<"P", "r", "i", "s", " ", "i", "n", "k", "l", ".", " ", "m", "o", "m", "s", " ", "(", "v", "ä", "r", "d", "e", ")">>,
     <<"P", "r", "i", "s", " ", "i", "n", "k", "l", ".", " ", "m", "o", "m", "s", " ", "(", "e", "n", "h", "e", "t", ")">>,
     <<"L", "ä", "n", "g", "d", " ", "(", "v", "ä", "r", "d", "e", ")">>,
     <<"L", "ä", "n", "g", "d", " ", "(", "e", "n", "h", "e", "t", ")">>,
     <<"B", "r", "e", "d", "d", " ", "(", "v", "ä", "r", "d", "e", ")">>,
     <<"B", "r", "e", "d", "d", " ", "(", "e", "n", "h", "e", "t", ")">>,
     <<"H", "ö", "j", "d", " ", "(", "v", "ä", "r", "d", "e", ")">>,
     <<"H", "ö", "j", "d", " ", "(", "e", "n", "h", "e", "t", ")">>,
     <<"D", "j", "u", "p", " ", "(", "v", "ä", "r", "d", "e", ")">>,
     <<"D", "j", "u", "p", " ", "(", "e", "n", "h", "e", "t", ")">>,
     <<"D", "i", "a", "m", "e", "t", "e", "r", " ", "(", "v", "ä", "r", "d", "e", ")">>,
     <<"D", "i", "a", "m", "e", "t", "e", "r", " ", "(", "e", "n", "h", "e", "t", ")">>,
     <<"K", "a", "p", "a", "c", "i", "t", "e", "t", " ", "(", "v", "ä", "r", "d", "e", ")">>,
     <<"K", "a", "p", "a", "c", "i", "t", "e", "t", " ", "(", "e", "n", "h", "e", "t", ")">>,
     <<"V", "o", "l", "y", "m", " ", "(", "v", "ä", "r", "d", "e", ")">>,
     <<"V", "o", "l", "y", "m", " ", "(", "e", "n", "h", "e", "t", ")">>,
     <<"V", "i", "k", "t", " ", "(", "v", "ä", "r", "d", "e", ")">>,
     <<"V", "i", "k", "t", " ", "(", "e", "n", "h", "e", "t", ")">>,
     <<"D", "a", "t", "a", " ", "(", "t", "e", "x", "t", ")">>,
     <<"K", "a", "t", "e", "g", "o", "r", "i", " ", "(", "p", "a", "r", "e", "n", "t", ")">>,
     <<"K", "a", "t", "e", "g", "o", "r", "i", " ", "(", "s", "u", "b", ")">>,
     <<"P", "r", "o", "d", "u", "k", "t", "b", "i", "l", "d", "-", "U", "R", "L">>,
     <<"P", "r", "o", "d", "u", "k", "t", "-", "U", "R", "L">>,
     <<"B", "e", "s", "k", "r", "i", "v", "n", "i", "n", "g">>,
     <<"E", "x", "t", "r", "a", " ", "d", "a", "t", "a">> >>

(***************************************************************************)
(* JavaScript objects with string keys.  An object whose key order is read  *)
(* (Object.keys, find) is the sequence of its entries <<key, value>> in the *)
(* order the keys were first assigned: no key of the model is an array      *)
(* index.  An object built by the assignments w[1], w[2], ... (each a pair  *)
(* <<key, value>>) holds every assigned key once, with the value assigned   *)
(* to it last.                                                              *)
(***************************************************************************)
ObjKeys(o) == [i \in DOMAIN o |-> o[i][1]]
ObjValues(o) == [i \in DOMAIN o |-> o[i][2]]
ObjHas(o, k) == \E i \in DOMAIN o : o[i][1] = k
ObjGet(o, k) == o[CHOOSE i \in DOMAIN o : o[i][1] = k][2]
LastWrite(w, k) ==
    CHOOSE j \in DOMAIN w : w[j][1] = k /\ \A i \in DOMAIN w : w[i][1] = k => i <= j
\* {} after obj[w[1][1]] = w[1][2]; obj[w[2][1]] = w[2][2]; ...
ObjFromWrites(w) ==
    LET firsts == { j \in DOMAIN w : \A i \in 1..(j - 1) : w[i][1] # w[j][1] }
        nth(n) == CHOOSE j \in firsts : Cardinality({ x \in firsts : x < j }) = n - 1
    IN  [n \in 1..Cardinality(firsts) |->
            <<w[nth(n)][1], w[LastWrite(w, w[nth(n)][1])][2]>>]
\* the same object when only its keys and values are read: a function
RecordFromWrites(w) ==
    [k \in { w[i][1] : i \in DOMAIN w } |-> w[LastWrite(w, k)][2]]

\* values that are no string of the model's characters
NULL == [null |-> TRUE]
UNDEFINED == <<"undefined">>
OBJECT_CONSTRUCTOR == <<"function Object">>
\* the one lower-case property name every object inherits
CONSTRUCTOR == <<"c", "o", "n", "s", "t", "r", "u", "c", "t", "o", "r">>

(***************************************************************************)
(* Header lookup and the import transform (CsvImport.jsx)                  *)
(***************************************************************************)
\* s.replace(/[\s\-\(\)]/g, "")
RECURSIVE StripPunctuation(_)
StripPunctuation(s) ==
    IF s = <<>> THEN <<>>
    ELSE IF ReSpace(Head(s)) \/ Head(s) \in {"-", "(", ")"}
         THEN StripPunctuation(Tail(s))
         ELSE <<Head(s)>> \o StripPunctuation(Tail(s))

\* the assignments of fields.reduce((acc, field) => { acc[field.toLowerCase()] = field;
\* acc[field.replace(/[\s\-\(\)]/g, "").toLowerCase()] = field; return acc; }, {})
AliasWrites(fields) ==
    [j \in 1..(2 * Len(fields)) |->
        LET field == fields[(j + 1) \div 2]
        IN  IF j % 2 = 1
            THEN <<toLowerCase(field), field>>
            ELSE <<toLowerCase(StripPunctuation(field)), field>>]

\* the reduce with a guard: if (!(key in acc)) acc[key] = field
BuildAliases_KeepsFirst(fields) ==
    LET w == AliasWrites(fields)
        firsts == { j \in DOMAIN w : \A i \in 1..(j - 1) : w[i][1] # w[j][1] }
        nth(n) == CHOOSE j \in firsts : Cardinality({ x \in firsts : x < j }) = n - 1
    IN  [n \in 1..Cardinality(firsts) |-> w[nth(n)]]

BuildAliases(fields) == ObjFromWrites(AliasWrites(fields))

FIELD_ALIASES == BuildAliases(PRODUCT_FIELDS)

\* FIELD_ALIASES[key]: an own property, else what Object.prototype gives
AliasGet(key) ==
    IF ObjHas(FIELD_ALIASES, key) THEN ObjGet(FIELD_ALIASES, key)
    ELSE IF key = CONSTRUCTOR THEN OBJECT_CONSTRUCTOR
    ELSE UNDEFINED

\* MapOne mapping a known header to the key it was found under
MapOne_KeepsNorm(f) ==
    LET norm == toLowerCase(trim(f))
        stripped == StripPunctuation(norm)
    IN  IF AliasGet(norm) # UNDEFINED THEN norm
        ELSE IF AliasGet(stripped) # UNDEFINED THEN stripped
        ELSE f

\* MapOne without the second, punctuation-stripped lookup
MapOne_ExactOnly(f) ==
    LET norm == toLowerCase(trim(f))
    IN  IF AliasGet(norm) # UNDEFINED THEN AliasGet(norm) ELSE f

\* the body of the forEach of mapFields: what mapping[f] is set to
MapOne(f) ==
    LET norm == toLowerCase(trim(f))
    IN  IF AliasGet(norm) # UNDEFINED THEN AliasGet(norm)
        ELSE IF AliasGet(StripPunctuation(norm)) # UNDEFINED
             THEN AliasGet(StripPunctuation(norm))
             ELSE f

mapFields(uploadedFields) ==
    ObjFromWrites([i \in DOMAIN uploadedFields |->
                      <<uploadedFields[i], MapOne(uploadedFields[i])>>])

\* validateColumns testing the header itself, not what it maps to, for extra
validateColumns_ExtraByName(mappedFields) ==
    LET present == ObjValues(mappedFields)
        IsMissing(f) == f \notin Range(present)
        IsExtra(f) == f \notin Range(PRODUCT_FIELDS)
    IN  [missing |-> SelectSeq(PRODUCT_FIELDS, IsMissing),
         extra |-> SelectSeq(ObjKeys(mappedFields), IsExtra)]

validateColumns(mappedFields) ==
    LET present == ObjValues(mappedFields)
        IsMissing(f) == f \notin Range(present)
        IsExtra(f) == ObjGet(mappedFields, f) \notin Range(PRODUCT_FIELDS)
    IN  [missing |-> SelectSeq(PRODUCT_FIELDS, IsMissing),
         extra |-> SelectSeq(ObjKeys(mappedFields), IsExtra)]

\* Object.keys(fieldMap).find((uf) => fieldMap[uf] === canon)
FindUploaded(fieldMap, canon) ==
    LET hits == { i \in DOMAIN fieldMap : fieldMap[i][2] = canon }
    IN  IF hits = {} THEN UNDEFINED
        ELSE fieldMap[CHOOSE i \in hits : \A j \in hits : i <= j][1]

\* row[uploaded] of a raw row, a function from its headers to its cells
RowGet(row, k) == IF k \in DOMAIN row THEN row[k] ELSE UNDEFINED

\* cleanRow assigning only the canonical fields that have a source column
cleanRow_OnlyMapped(row, fieldMap) ==
    LET mapped == SelectSeq(PRODUCT_FIELDS, LAMBDA c : FindUploaded(fieldMap, c) # UNDEFINED)
    IN  RecordFromWrites(
            [i \in DOMAIN mapped |-> <<mapped[i], RowGet(row, FindUploaded(fieldMap, mapped[i]))>>])

\* result = {}; PRODUCT_FIELDS.forEach((canon) => {
\*   result[canon] = uploaded ? row[uploaded] : "" })
cleanRow(row, fieldMap) ==
    RecordFromWrites(
        [i \in DOMAIN PRODUCT_FIELDS |->
            LET canon == PRODUCT_FIELDS[i]
                uploaded == FindUploaded(fieldMap, canon)
            IN  <<canon, IF uploaded # UNDEFINED /\ uploaded # <<>>
                         THEN RowGet(row, uploaded) ELSE <<>> >>])

\* cleanRows taking the first row for a header row
cleanRows_SkipsFirst(rows, fieldMap) ==
    [i \in 1..(Len(rows) - 1) |-> cleanRow(rows[i + 1], fieldMap)]

\* rows.map((row) => ...)
cleanRows(rows, fieldMap) == [i \in DOMAIN rows |-> cleanRow(rows[i], fieldMap)]

\* the four fields the search reads, as App.jsx spells them
NAMN == <<"N", "a", "m", "n">>
ARTIKELNUMMER == <<"A", "r", "t", "i", "k", "e", "l", "n", "u", "m", "m", "e", "r">>
KATEGORI_PARENT == <<"K", "a", "t", "e", "g", "o", "r", "i", " ", "(", "p", "a", "r", "e", "n", "t", ")">>
KATEGORI_SUB == <<"K", "a", "t", "e", "g", "o", "r", "i", " ", "(", "s", "u", "b", ")">>
\* the key of the transient score annotation
SCORE_KEY == <<"_", "s", "c", "o", "r", "e">>

(***************************************************************************)
(* Search and ranking (App.jsx)                                            *)
(***************************************************************************)
normalize(str) ==
    trim(CollapseSpaces(NonWordToSpace(RemoveCombining(normalizeNFD(toLowerCase(str))))))

\* isLikelySku with the length test off by one (q.length <= 10)
isLikelySku_Le10(q) ==
    \/ \E i \in DOMAIN q : ReDigit(q[i])
    \/ /\ q # <<>>
       /\ \A i \in DOMAIN q : ReWord(q[i]) \/ q[i] = "-"
       /\ Len(q) <= 10

\* /\d/.test(q) || (/^[\w\-]+$/.test(q) && q.length < 10)
isLikelySku(q) ==
    \/ \E i \in DOMAIN q : ReDigit(q[i])
    \/ /\ q # <<>>
       /\ \A i \in DOMAIN q : ReWord(q[i]) \/ q[i] = "-"
       /\ Len(q) < 10

\* getRelevancy adding up the scores of all the fields that match
getRelevancy_SumsFields(p, q, m) ==
    LET name == normalize(p[NAMN])
        sku == normalize(p[ARTIKELNUMMER])
        parent == normalize(p[KATEGORI_PARENT])
        sub == normalize(p[KATEGORI_SUB])
        first == IF m = "sku" THEN sku ELSE sub
        second == IF m = "sku" THEN sub ELSE parent
        third == IF m = "sku" THEN parent ELSE sku
    IN  (IF includes(first, q) THEN 100 ELSE 0) + (IF includes(second, q) THEN 90 ELSE 0)
        + (IF includes(third, q) THEN 80 ELSE 0) + (IF includes(name, q) THEN 70 ELSE 0)

\* getRelevancy whose name mode forgets the identifier
getRelevancy_NameSkipsSku(p, q, m) ==
    LET name == normalize(p[NAMN])
        sku == normalize(p[ARTIKELNUMMER])
        parent == normalize(p[KATEGORI_PARENT])
        sub == normalize(p[KATEGORI_SUB])
    IN  IF m = "sku"
        THEN IF includes(sku, q) THEN 100
             ELSE IF includes(sub, q) THEN 90
             ELSE IF includes(parent, q) THEN 80
             ELSE IF includes(name, q) THEN 70
             ELSE 0
        ELSE IF includes(sub, q) THEN 100
             ELSE IF includes(parent, q) THEN 90
             ELSE IF includes(name, q) THEN 70
             ELSE 0

getRelevancy(p, q, m) ==
    LET name == normalize(p[NAMN])
        sku == normalize(p[ARTIKELNUMMER])
        parent == normalize(p[KATEGORI_PARENT])
        sub == normalize(p[KATEGORI_SUB])
    IN  IF m = "sku"
        THEN IF includes(sku, q) THEN 100
             ELSE IF includes(sub, q) THEN 90
             ELSE IF includes(parent, q) THEN 80
             ELSE IF includes(name, q) THEN 70
             ELSE 0
        ELSE IF includes(sub, q) THEN 100
             ELSE IF includes(parent, q) THEN 90
             ELSE IF includes(sku, q) THEN 80
             ELSE IF includes(name, q) THEN 70
             ELSE 0

\* the loop assigning the score of a word instead of adding it (totalScore = score)
RECURSIVE ScoreLoop_Assigns(_, _, _, _, _)
ScoreLoop_Assigns(p, ws, m, totalScore, allMatched) ==
    IF ws = <<>> THEN <<totalScore, allMatched>>
    ELSE LET score == getRelevancy(p, Head(ws), m)
         IN  IF score > 0
             THEN ScoreLoop_Assigns(p, Tail(ws), m, score, allMatched)
             ELSE ScoreLoop_Assigns(p, Tail(ws), m, totalScore, FALSE)

\* the loop over qWords: <<totalScore, allMatched>> after the words ws
RECURSIVE ScoreLoop(_, _, _, _, _)
ScoreLoop(p, ws, m, totalScore, allMatched) ==
    IF ws = <<>> THEN <<totalScore, allMatched>>
    ELSE LET score == getRelevancy(p, Head(ws), m)
         IN  IF score > 0
             THEN ScoreLoop(p, Tail(ws), m, totalScore + score, allMatched)
             ELSE ScoreLoop(p, Tail(ws), m, totalScore, FALSE)

\* the annotation keeping totalScore whether or not every word matched
Annotate_IgnoresAllMatched(p, qWords, m) ==
    LET r == ScoreLoop(p, qWords, m, 0, TRUE)
    IN  [k \in DOMAIN p \cup {SCORE_KEY} |-> IF k = SCORE_KEY THEN r[1] ELSE p[k]]

\* { ...p, _score: allMatched ? totalScore : 0 }
Annotate(p, qWords, m) ==
    LET r == ScoreLoop(p, qWords, m, 0, TRUE)
        s == IF r[2] THEN r[1] ELSE 0
    IN  [k \in DOMAIN p \cup {SCORE_KEY} |-> IF k = SCORE_KEY THEN s ELSE p[k]]

\* .filter((p) => p._score > 0)
RECURSIVE FilterScored(_)
FilterScored(es) ==
    IF es = <<>> THEN <<>>
    ELSE IF Head(es)[SCORE_KEY] > 0 THEN <<Head(es)>> \o FilterScored(Tail(es))
    ELSE FilterScored(Tail(es))

\* a sort that puts an entry in front of the earlier entries of equal score
RECURSIVE InsertByScore_Unstable(_, _)
InsertByScore_Unstable(e, sorted) ==
    IF sorted = <<>> THEN <<e>>
    ELSE IF e[SCORE_KEY] - Head(sorted)[SCORE_KEY] < 0
         THEN <<Head(sorted)>> \o InsertByScore_Unstable(e, Tail(sorted))
         ELSE <<e>> \o sorted

\* .sort((a, b) => b._score - a._score): Array.prototype.sort is stable, so an
\* entry goes behind every earlier entry the comparator does not put after it
RECURSIVE InsertByScore(_, _)
InsertByScore(e, sorted) ==
    IF sorted = <<>> THEN <<e>>
    ELSE IF e[SCORE_KEY] - Head(sorted)[SCORE_KEY] <= 0
         THEN <<Head(sorted)>> \o InsertByScore(e, Tail(sorted))
         ELSE <<e>> \o sorted
RECURSIVE SortByScore(_)
SortByScore(es) ==
    IF es = <<>> THEN <<>>
    ELSE InsertByScore(es[Len(es)], SortByScore(SubSeq(es, 1, Len(es) - 1)))

\* products.map(...).filter(...).sort(...) for the words qWords and the mode m
Ranked(ps, qWords, m) ==
    SortByScore(FilterScored([i \in DOMAIN ps |-> Annotate(ps[i], qWords, m)]))

\* const qWords = normalize(search).split(" ").filter(Boolean)
\* the query split into words as typed, without normalize
QueryWords_Raw(s) == filterBoolean(split(s))
QueryWords(s) == filterBoolean(split(normalize(s)))
\* const mode = isLikelySku(search) ? "sku" : "name"
QueryMode(s) == IF isLikelySku(s) THEN "sku" ELSE "name"

\* the memo ranking the list for the empty query too
Filtered_RanksEmpty(ps, s) == Ranked(ps, QueryWords(s), QueryMode(s))

\* the useMemo body of filtered
Filtered(ps, s) ==
    IF s = <<>> THEN ps
    ELSE Ranked(ps, QueryWords(s), QueryMode(s))

(***************************************************************************)
(* Bounds and input pools of the search specifications                     *)
(***************************************************************************)
MaxQueryLen == 3      \* longest query typed in SpecSearch
MaxProducts == 2      \* longest product list of several records in SpecSearch
MaxSkuLen == 10       \* longest query typed in SpecSku
MaxSpecial == 1       \* most characters other than "a" in a query of SpecSku

\* what the user types in SpecSearch: letters, an upper-case letter with a
\* diacritic, a digit, a space
QueryChars == {"a", "b", "1", " ", "Ä"}
\* what the user types in SpecSku besides "a"
SkuSpecials == {"1", " ", "-", "_", "B", "ä"}

\* a product record with the four searched fields given and every other
\* canonical field empty
MkProduct(name, sku, parent, sub) ==
    [f \in Range(PRODUCT_FIELDS) |->
        IF f = NAMN THEN name
        ELSE IF f = ARTIKELNUMMER THEN sku
        ELSE IF f = KATEGORI_PARENT THEN parent
        ELSE IF f = KATEGORI_SUB THEN sub
        ELSE <<>>]

\* sixteen records: for the token "a", and for the token "b", every subset of
\* the four fields is the set of fields containing it in exactly one record
RichProducts ==
    { MkProduct(n, s, pa, su) :
        n \in {<<"a", " ", "b">>, <<"1">>},
        s \in {<<"1", "a">>, <<"b", "-", "1">>},
        pa \in {<<"Ä">>, <<"b">>},
        su \in {<<"A", "b">>, <<>>} }
\* the records of the longer lists
ListProducts ==
    { MkProduct(<<"a", " ", "b">>, <<"1", "a">>, <<"b">>, <<>>),
      MkProduct(<<"1">>, <<"b", "-", "1">>, <<"b">>, <<>>),
      MkProduct(<<"1">>, <<"b", "-", "1">>, <<"Ä">>, <<"A", "b">>) }

SeqsUpTo(S, n) == UNION { [1..k -> S] : k \in 0..n }

(***************************************************************************)
(* The search box: every change of search or products re-renders filtered  *)
(***************************************************************************)
Render(ps, s) ==
    /\ filtered' = Filtered(ps, s)
    /\ mode' = IF s = <<>> THEN "idle" ELSE QueryMode(s)

\* a character typed, with the score written into the stored records and the
\* stored list sorted in place
TypeChar_InPlace(c) ==
    /\ Len(search) < MaxQueryLen
    /\ search' = Append(search, c)
    /\ UNCHANGED <<appVars, headerVars, detailVars, aliasVars>>
    /\ products' = SortByScore([i \in DOMAIN products |->
                        Annotate(products[i], QueryWords(search'), QueryMode(search'))])
    /\ filtered' = FilterScored(products')
    /\ mode' = QueryMode(search')

\* YouTubeHeader: setSearchValue(e.target.value), one more character typed
TypeChar(c) ==
    /\ Len(search) < MaxQueryLen
    /\ search' = Append(search, c)
    /\ UNCHANGED <<products, appVars, headerVars, detailVars, aliasVars>>
    /\ Render(products, search')

\* the search box emptied
ClearSearch ==
    /\ search # <<>>
    /\ search' = <<>>
    /\ UNCHANGED <<products, appVars, headerVars, detailVars, aliasVars>>
    /\ Render(products, search')

\* the App before any upload, and the header editor idle
InitApp ==
    /\ uploadInProgress = FALSE
    /\ showResults = FALSE
    /\ warningMessage = <<>>
    /\ errorMessage = <<>>
    /\ successTrigger = 0
    /\ spinnerTimeoutRef = 0
    /\ timers = <<>>
    /\ validation = NULL
    /\ uploads = <<>>
    /\ reads = {}
    /\ onDataCalls = <<>>
    /\ commits = <<>>
InitHeaderIdle ==
    /\ header = <<>>
    /\ headerMap = <<>>
    /\ edits = 0
\* no detail view is open
InitDetailIdle ==
    /\ selectedProduct = NULL
    /\ relevant = <<>>

\* no schema is under construction
InitAliasIdle ==
    /\ schema = <<>>
    /\ aliases = <<>>

\* a product list is on display (the state after some upload was committed)
InitSearch ==
    /\ search = <<>>
    /\ products \in { <<r>> : r \in RichProducts } \cup SeqsUpTo(ListProducts, MaxProducts)
    /\ filtered = products
    /\ mode = "idle"
    /\ InitApp
    /\ InitHeaderIdle
    /\ InitDetailIdle
    /\ InitAliasIdle

NextSearch ==
    \/ \E c \in QueryChars : TypeChar(c)
    \/ ClearSearch

SpecSearch == InitSearch /\ [][NextSearch]_vars

\* the search box over a list of three records, in every arrangement and with
\* repeated records, so that scores tie and differ
OrderLists == [1..Cardinality(ListProducts) -> ListProducts]
InitOrder ==
    /\ search = <<>>
    /\ products \in OrderLists
    /\ filtered = products
    /\ mode = "idle"
    /\ InitApp
    /\ InitHeaderIdle
    /\ InitDetailIdle
    /\ InitAliasIdle

SpecOrder == InitOrder /\ [][NextSearch]_vars

\* a longer query, mostly of the letter "a", typed into an empty product list
SpecialCount(s) == Cardinality({ i \in DOMAIN s : s[i] \in SkuSpecials })

TypeLong(c) ==
    /\ Len(search) < MaxSkuLen
    /\ c \in SkuSpecials => SpecialCount(search) < MaxSpecial
    /\ search' = Append(search, c)
    /\ UNCHANGED <<products, appVars, headerVars, detailVars, aliasVars>>
    /\ Render(products, search')

InitSku ==
    /\ search = <<>>
    /\ products = <<>>
    /\ filtered = <<>>
    /\ mode = "idle"
    /\ InitApp
    /\ InitHeaderIdle
    /\ InitDetailIdle
    /\ InitAliasIdle

NextSku == \E c \in SkuSpecials \cup {"a"} : TypeLong(c)

SpecSku == InitSku /\ [][NextSku]_vars

(***************************************************************************)
(* Record objects and the popup (ProductCard.jsx)                          *)
(***************************************************************************)
\* a record object: ref tells one object from another of the same content
\* (!== compares objects, not contents); the record at index i of products
\* is the object i, and 0 is an object that is none of them
Obj(i) == [ref |-> i, rec |-> products[i]]
CopyOf(i) == [ref |-> 0, rec |-> products[i]]
AllObjs == [i \in DOMAIN products |-> Obj(i)]

\* the objects of a product list ps
ObjsOf(ps) == [i \in DOMAIN ps |-> [ref |-> i, rec |-> ps[i]]]
\* an object held from before setProducts(rows): none of the new list's
Detached(o) == IF o = NULL THEN NULL ELSE [ref |-> 0, rec |-> o.rec]

\* Array.prototype.slice(0, n), String.prototype.slice(0, n)
slice(s, n) == SubSeq(s, 1, IF Len(s) < n THEN Len(s) ELSE n)
\* String.prototype.startsWith
startsWith(s, prefix) == Len(prefix) <= Len(s) /\ SubSeq(s, 1, Len(prefix)) = prefix

\* sku.slice(0, 3)
SkuPrefixLen == 3
\* .slice(0, 6)
MaxRelated == 6

\* the related list letting through the records with the focal identifier
relevantOfCard_KeepsSameSku(product, allProducts) ==
    LET sku == product.rec[ARTIKELNUMMER]
        subcat == product.rec[KATEGORI_SUB]
        keep(p) ==
            LET psku == p.rec[ARTIKELNUMMER]
            IN  /\ psku # <<>>
                /\ \/ sku # <<>> /\ startsWith(psku, slice(sku, SkuPrefixLen))
                   \/ subcat # <<>> /\ p.rec[KATEGORI_SUB] = subcat
    IN  slice(SelectSeq(allProducts, keep), MaxRelated)

\* const relevant = allProducts.filter(p => { ... }).slice(0, 6) of ProductCard;
\* the cells of the model are strings, so String(x || "") is x
relevantOfCard(product, allProducts) ==
    LET sku == product.rec[ARTIKELNUMMER]
        subcat == product.rec[KATEGORI_SUB]
        keep(p) ==
            LET psku == p.rec[ARTIKELNUMMER]
            IN  /\ psku # <<>>
                /\ psku # sku
                /\ \/ sku # <<>> /\ startsWith(psku, slice(sku, SkuPrefixLen))
                   \/ subcat # <<>> /\ p.rec[KATEGORI_SUB] = subcat
    IN  slice(SelectSeq(allProducts, keep), MaxRelated)

\* ProductCard rendered: if (!product) return null
RenderCard(product, allProducts) ==
    IF product = NULL THEN <<>> ELSE relevantOfCard(product, allProducts)

(***************************************************************************)
(* Uploads: CsvImport.handleFile, App.handleUploadStart, App.handleCsvData  *)
(***************************************************************************)
MaxRows == 2           \* most rows of a file of SpecImport
MaxExtraHeaders == 1   \* most headers of a file of SpecImport besides its base headers
MaxUploads == 2        \* most uploads of Spec

\* a decoded file: ok is FALSE when XLSX.read throws; keys are the headers
\* (Object.keys of the first row); every row is a function from keys to cells
SheetFile(keys, rows) == [ok |-> TRUE, keys |-> keys, rows |-> rows]
CorruptFile == [ok |-> FALSE, keys |-> <<>>, rows |-> <<>>]
EmptyFile == SheetFile(<<>>, <<>>)

\* the cell of column j in a row tagged t: rows differ, neighbouring columns
\* differ, and the rows tagged "b" have an empty cell in every third column
ColumnMarks == <<"0", "1", "2">>
Cell(t, j) ==
    IF t = "b" /\ j % 3 = 0 THEN <<>> ELSE <<t, ColumnMarks[(j % 3) + 1]>>
RowTags == {"a", "b"}
TaggedRow(keys, t) ==
    [h \in Range(keys) |-> Cell(t, CHOOSE j \in DOMAIN keys : keys[j] = h)]
TaggedFile(keys, tags) == SheetFile(keys, [i \in DOMAIN tags |-> TaggedRow(keys, tags[i])])

\* headers besides the canonical spellings: variants of canonical names, an
\* unknown header, and the name of the inherited property
ExtraHeaders ==
    { <<"n", "a", "m", "n">>,
      <<"F", "Ä", "R", "G", " ">>,
      <<"P", "r", "o", "d", "u", "k", "t", " ", "U", "R", "L">>,
      <<"O", "k", "ä", "n", "d">>,
      CONSTRUCTOR }
HeaderBases == { <<>>, <<NAMN, ARTIKELNUMMER>>, PRODUCT_FIELDS }
DistinctSeqsUpTo(S, n) ==
    { s \in SeqsUpTo(S, n) : \A i, j \in DOMAIN s : i # j => s[i] # s[j] }
\* a sheet with rows has at least one column
HeaderLists ==
    ( { b \o x : b \in HeaderBases, x \in DistinctSeqsUpTo(ExtraHeaders, MaxExtraHeaders) }
      \cup { x \o b : b \in HeaderBases, x \in DistinctSeqsUpTo(ExtraHeaders, MaxExtraHeaders) } )
    \ { <<>> }
\* the files of SpecImport: every header list with up to MaxRows rows, and the
\* file without rows
ImportFiles ==
    { TaggedFile(keys, tags) : keys \in HeaderLists, tags \in SeqsUpTo(RowTags, MaxRows) \ {<<>>} }
    \cup { EmptyFile }
\* the files of Spec
AppFiles ==
    { EmptyFile,
      CorruptFile,
      TaggedFile(<<NAMN, ARTIKELNUMMER>>, <<"a">>),
      TaggedFile(PRODUCT_FIELDS, <<"a", "b">>) }

\* handleFile, up to the start of the read: onUploadStart() is
\* App.handleUploadStart; the FileReader then reads the file
UploadStart(f) ==
    /\ uploads' = Append(uploads, f)
    /\ reads' = reads \cup {Len(uploads) + 1}
    /\ uploadInProgress' = TRUE
    /\ showResults' = FALSE
    /\ timers' = IF spinnerTimeoutRef # 0
                 THEN SelectSeq(timers, LAMBDA t : t.id # spinnerTimeoutRef)
                 ELSE timers
    /\ UNCHANGED <<searchVars, headerVars, detailVars, aliasVars, warningMessage, errorMessage, successTrigger,
                   spinnerTimeoutRef, validation, onDataCalls, commits>>

\* the try block without the test for an empty sheet
LoadThrows_DecodeOnly(f) == ~f.ok

\* whether the try block of reader.onload throws: XLSX.read fails, or
\* if (!rows.length) throw new Error("Filen innehåller inga rader.")
LoadThrows(f) == ~f.ok \/ Len(f.rows) = 0
ErrMessage(f) == IF ~f.ok THEN "decode error" ELSE "Filen innehåller inga rader."

\* reader.onload publishing the report of a file with missing fields without
\* handing its records over
OnLoad_ReportOnlyWhenMissing(u) ==
    /\ u \in reads
    /\ reads' = reads \ {u}
    /\ LET f == uploads[u] IN
       IF LoadThrows(f)
       THEN /\ errorMessage' = <<"Kunde inte läsa filen: ", ErrMessage(f)>>
            /\ UNCHANGED <<validation, warningMessage, successTrigger, timers,
                           spinnerTimeoutRef, onDataCalls>>
       ELSE LET fieldMap == mapFields(f.keys)
                val == validateColumns(fieldMap)
                rows == cleanRows(f.rows, fieldMap)
                timerId == Len(onDataCalls) + 1
            IN  /\ validation' = val
                /\ errorMessage' = <<>>
                /\ IF Len(val.missing) = 0
                   THEN /\ warningMessage' = <<>>
                        /\ successTrigger' = successTrigger + 1
                        /\ onDataCalls' = Append(onDataCalls, <<u, rows>>)
                        /\ timers' = Append(timers, [id |-> timerId, rows |-> rows])
                        /\ spinnerTimeoutRef' = timerId
                   ELSE /\ warningMessage' = <<"Varning: Saknade fält i filen: ", val.missing>>
                        /\ UNCHANGED <<successTrigger, onDataCalls, timers, spinnerTimeoutRef>>
    /\ UNCHANGED <<searchVars, headerVars, detailVars, aliasVars, uploadInProgress, showResults, uploads,
                   commits>>

\* reader.onload of upload u
OnLoad(u) ==
    /\ u \in reads
    /\ reads' = reads \ {u}
    /\ LET f == uploads[u] IN
       IF LoadThrows(f)
       THEN \* catch (err): setErrorMessage, alert
            /\ errorMessage' = <<"Kunde inte läsa filen: ", ErrMessage(f)>>
            /\ UNCHANGED <<validation, warningMessage, successTrigger, timers,
                           spinnerTimeoutRef, onDataCalls>>
       ELSE LET fieldMap == mapFields(f.keys)
                val == validateColumns(fieldMap)
                rows == cleanRows(f.rows, fieldMap)
                timerId == Len(onDataCalls) + 1
            IN  /\ validation' = val
                /\ errorMessage' = <<>>
                /\ IF Len(val.missing) = 0
                   THEN \* onAllRequiredColumnsPresent(): setSuccessTrigger(Date.now())
                        /\ warningMessage' = <<>>
                        /\ successTrigger' = successTrigger + 1
                   ELSE /\ warningMessage' = <<"Varning: Saknade fält i filen: ", val.missing>>
                        /\ UNCHANGED successTrigger
                \* onData(cleanRows) is App.handleCsvData
                /\ onDataCalls' = Append(onDataCalls, <<u, rows>>)
                /\ timers' = Append(timers, [id |-> timerId, rows |-> rows])
                /\ spinnerTimeoutRef' = timerId
    /\ UNCHANGED <<searchVars, headerVars, detailVars, aliasVars, uploadInProgress, showResults, uploads,
                   commits>>

\* the callback of the setTimeout of handleCsvData; timers of one delay run in
\* the order they were set
TimerFire ==
    /\ timers # <<>>
    /\ products' = Head(timers).rows
    /\ uploadInProgress' = FALSE
    /\ showResults' = TRUE
    /\ timers' = Tail(timers)
    /\ commits' = Append(commits, onDataCalls[Head(timers).id][1])
    /\ UNCHANGED <<search, headerVars, aliasVars, warningMessage, errorMessage, successTrigger,
                   spinnerTimeoutRef, validation, uploads, reads, onDataCalls>>
    /\ Render(products', search)
    \* the popup stays open on the object it holds, over the new list
    /\ selectedProduct' = Detached(selectedProduct)
    /\ relevant' = RenderCard(selectedProduct', ObjsOf(products'))

\* the App as mounted: no products, no query, no upload
Init ==
    /\ search = <<>>
    /\ products = <<>>
    /\ filtered = <<>>
    /\ mode = "idle"
    /\ InitApp
    /\ InitHeaderIdle
    /\ InitDetailIdle
    /\ InitAliasIdle

Next ==
    \/ \E f \in AppFiles : Len(uploads) < MaxUploads /\ UploadStart(f)
    \/ \E u \in reads : OnLoad(u)
    \/ TimerFire

Spec == Init /\ [][Next]_vars

\* the same App with what the browser guarantees: a FileReader that was started
\* calls onload, and a timeout that is not cleared runs its callback; nobody
\* is bound to pick another file
\* the step that takes upload u out of reads: OnLoad(u) and no other
Loaded(u) == u \in reads /\ reads' = reads \ {u}
Fairness ==
    /\ \A u \in 1..MaxUploads : WF_reads(Loaded(u))
    /\ WF_vars(TimerFire)
SpecLive == Init /\ [][Next]_vars /\ Fairness

\* one import, of any file of ImportFiles
NextImport ==
    \/ \E f \in ImportFiles : uploads = <<>> /\ UploadStart(f)
    \/ \E u \in reads : OnLoad(u)
    \/ TimerFire

SpecImport == Init /\ [][NextImport]_vars

(***************************************************************************)
(* Round trip: the committed records are written out under the canonical   *)
(* headers, in canonical order, and that file is imported                   *)
(***************************************************************************)
RoundTripFiles ==
    { TaggedFile(keys, tags) : keys \in HeaderLists, tags \in {<<"a">>, <<"b", "a">>} }
\* the rows sheet_to_json gives for the written file: one per record, every
\* canonical field a column
Exported(records) == SheetFile(PRODUCT_FIELDS, records)

ReImport ==
    /\ Len(uploads) = 1
    /\ reads = {}
    /\ timers = <<>>
    /\ products # <<>>
    /\ UploadStart(Exported(products))

NextRoundTrip ==
    \/ \E f \in RoundTripFiles : uploads = <<>> /\ UploadStart(f)
    \/ ReImport
    \/ \E u \in reads : OnLoad(u)
    \/ TimerFire

SpecRoundTrip == Init /\ [][NextRoundTrip]_vars

(***************************************************************************)
(* Header lookup on its own: a column header as someone may have typed it,  *)
(* starting from a canonical name or from a header that is none             *)
(***************************************************************************)
MaxEdits == 1          \* most edits of a header of SpecHeader

\* what an edit may insert: white space, a hyphen, a parenthesis, a letter
InsertChars == {" ", "-", "(", "x"}
ForeignHeaders == { CONSTRUCTOR, <<"O", "k", "ä", "n", "d">> }

UpperChar(c) ==
    IF c \in Range(LowerAscii) THEN UpperAscii[IndexIn(LowerAscii, c)]
    ELSE IF c \in Range(LowerSwedish) THEN UpperSwedish[IndexIn(LowerSwedish, c)]
    ELSE c
SwapCase(c) == IF LowerChar(c) # c THEN LowerChar(c) ELSE UpperChar(c)

\* the header becomes h, and mapFields runs on the header row [h]
SetHeader(h) ==
    /\ edits < MaxEdits
    /\ h # header
    /\ header' = h
    /\ headerMap' = mapFields(<<h>>)
    /\ edits' = edits + 1
    /\ UNCHANGED <<searchVars, appVars, detailVars, aliasVars>>

UpperCaseAll == SetHeader([i \in DOMAIN header |-> UpperChar(header[i])])
SwapCaseAt(i) == SetHeader([header EXCEPT ![i] = SwapCase(header[i])])
InsertAt(i, c) == SetHeader(SubSeq(header, 1, i) \o <<c>> \o SubSeq(header, i + 1, Len(header)))
DeleteAt(i) == SetHeader(SubSeq(header, 1, i - 1) \o SubSeq(header, i + 1, Len(header)))

InitHeader ==
    /\ search = <<>>
    /\ products = <<>>
    /\ filtered = <<>>
    /\ mode = "idle"
    /\ InitApp
    /\ header \in Range(PRODUCT_FIELDS) \cup ForeignHeaders
    /\ headerMap = mapFields(<<header>>)
    /\ edits = 0
    /\ InitDetailIdle
    /\ InitAliasIdle

NextHeader ==
    \/ UpperCaseAll
    \/ \E i \in DOMAIN header : SwapCaseAt(i)
    \/ \E i \in 0..Len(header) : \E c \in InsertChars : InsertAt(i, c)
    \/ \E i \in DOMAIN header : DeleteAt(i)

SpecHeader == InitHeader /\ [][NextHeader]_vars

(***************************************************************************)
(* JavaScript numbers, as far as parseInt and the distance need them: an   *)
(* integer hi * Limb + lo is the pair <<hi, lo>> with 0 <= lo < Limb, and  *)
(* NaN is the empty tuple.  Integers up to 2^53 are exact; from there to   *)
(* 2^54 a double holds the even integers, and the model's identifiers stay *)
(* below 2^54.                                                             *)
(***************************************************************************)
Limb == 100000000
NaN == <<>>
isNaN(x) == x = NaN
Num(n) == <<n \div Limb, n % Limb>>
\* 2^53 - 1 and 2^53
MAX_SAFE_INTEGER == <<90071992, 54740991>>
TwoTo53 == <<90071992, 54740992>>

NumLess(a, b) == a[1] < b[1] \/ (a[1] = b[1] /\ a[2] < b[2])
NumNeg(a) == IF a[2] = 0 THEN <<0 - a[1], 0>> ELSE <<0 - a[1] - 1, Limb - a[2]>>
NumSubExact(a, b) ==
    IF a[2] >= b[2] THEN <<a[1] - b[1], a[2] - b[2]>>
    ELSE <<a[1] - b[1] - 1, a[2] - b[2] + Limb>>
NumAbs(a) == IF a[1] < 0 THEN NumNeg(a) ELSE a
NumSucc(a) == IF a[2] = Limb - 1 THEN <<a[1] + 1, 0>> ELSE <<a[1], a[2] + 1>>
NumPred(a) == IF a[2] = 0 THEN <<a[1] - 1, Limb - 1>> ELSE <<a[1], a[2] - 1>>

\* the double nearest to a non-negative integer below 2^54, ties to even
RoundMagnitude(a) ==
    IF ~NumLess(TwoTo53, a) \/ a[2] % 2 = 0 THEN a
    ELSE IF a[2] % 4 = 1 THEN NumPred(a) ELSE NumSucc(a)
ToDouble(a) == IF a[1] < 0 THEN NumNeg(RoundMagnitude(NumNeg(a))) ELSE RoundMagnitude(a)

\* a - b and Math.abs on numbers that are not NaN
NumSub(a, b) == ToDouble(NumSubExact(a, b))
MathAbs(a) == NumAbs(a)

\* parseInt(s, 10): leading white space is skipped, then an optional sign,
\* then the longest run of decimal digits; NaN when there is no digit
RECURSIVE DigitsPrefix(_)
DigitsPrefix(s) ==
    IF s = <<>> \/ ~ReDigit(Head(s)) THEN <<>>
    ELSE <<Head(s)>> \o DigitsPrefix(Tail(s))
DigitValue(c) ==
    CASE c = "0" -> 0 [] c = "1" -> 1 [] c = "2" -> 2 [] c = "3" -> 3 [] c = "4" -> 4
      [] c = "5" -> 5 [] c = "6" -> 6 [] c = "7" -> 7 [] c = "8" -> 8 [] c = "9" -> 9
RECURSIVE MathInt(_, _)
MathInt(ds, acc) ==
    IF ds = <<>> THEN acc
    ELSE LET lo == acc[2] * 10 + DigitValue(Head(ds))
         IN  MathInt(Tail(ds), <<acc[1] * 10 + lo \div Limb, lo % Limb>>)
parseInt(s) ==
    LET t == trimStart(s)
        signed == t # <<>> /\ Head(t) \in {"-", "+"}
        body == IF signed THEN Tail(t) ELSE t
        ds == DigitsPrefix(body)
        n == ToDouble(MathInt(ds, <<0, 0>>))
    IN  IF ds = <<>> THEN NaN
        ELSE IF signed /\ Head(t) = "-" THEN NumNeg(n) ELSE n

(***************************************************************************)
(* Recommendations (ProductDetail): getRelevantProducts                    *)
(***************************************************************************)
\* maxResults = 6
DefaultMaxResults == 6

\* the category score comparing the categories in lower case, without
\* diacritics and surrounding white space
CategoryScore_Normalized(p, currentParent, currentSub) ==
    LET fold(s) == trim(RemoveCombining(normalizeNFD(toLowerCase(s))))
    IN  IF fold(p.rec[KATEGORI_PARENT]) = fold(currentParent)
           /\ fold(p.rec[KATEGORI_SUB]) = fold(currentSub) THEN 2
        ELSE IF fold(p.rec[KATEGORI_PARENT]) = fold(currentParent) THEN 1
        ELSE 0
\* categoryScore of the map callback
CategoryScore(p, currentParent, currentSub) ==
    IF p.rec[KATEGORI_PARENT] = currentParent /\ p.rec[KATEGORI_SUB] = currentSub THEN 2
    ELSE IF p.rec[KATEGORI_PARENT] = currentParent THEN 1
    ELSE 0
\* skuDistance of the map callback
SkuDistance(p, currentSKU) ==
    LET sku == parseInt(p.rec[ARTIKELNUMMER])
    IN  IF ~isNaN(currentSKU) /\ ~isNaN(sku) THEN MathAbs(NumSub(currentSKU, sku))
        ELSE MAX_SAFE_INTEGER

\* the sign of the sort comparator's result for (a, b)
Sign(a, b) == IF NumLess(a, b) THEN 0 - 1 ELSE IF NumLess(b, a) THEN 1 ELSE 0
\* a comparator that looks at the distance first
CompareRelevance_DistanceFirst(a, b) ==
    IF a.skuDistance # b.skuDistance THEN Sign(a.skuDistance, b.skuDistance)
    ELSE b.categoryScore - a.categoryScore
CompareRelevance(a, b) ==
    IF b.categoryScore # a.categoryScore THEN b.categoryScore - a.categoryScore
    ELSE Sign(a.skuDistance, b.skuDistance)

\* Array.prototype.sort is stable: an entry goes behind every earlier entry
\* the comparator does not put after it
RECURSIVE InsertByRelevance(_, _)
InsertByRelevance(e, sorted) ==
    IF sorted = <<>> THEN <<e>>
    ELSE IF CompareRelevance(Head(sorted), e) <= 0
         THEN <<Head(sorted)>> \o InsertByRelevance(e, Tail(sorted))
         ELSE <<e>> \o sorted
RECURSIVE SortByRelevance(_)
SortByRelevance(es) ==
    IF es = <<>> THEN <<>>
    ELSE InsertByRelevance(es[Len(es)], SortByRelevance(SubSeq(es, 1, Len(es) - 1)))

\* the filter letting the focal object through
Eligible_KeepsFocal(p, currentProduct) == p.rec[ARTIKELNUMMER] # <<>>
\* p !== currentProduct && p["Artikelnummer"]
Eligible(p, currentProduct) ==
    p.ref # currentProduct.ref /\ p.rec[ARTIKELNUMMER] # <<>>

\* the function cutting the list before it sorts
getRelevantProducts_SliceFirst(currentProduct, allProducts, maxResults) ==
    LET currentParent == currentProduct.rec[KATEGORI_PARENT]
        currentSub == currentProduct.rec[KATEGORI_SUB]
        currentSKU == parseInt(currentProduct.rec[ARTIKELNUMMER])
        kept == SelectSeq(allProducts, LAMBDA p : Eligible(p, currentProduct))
        mapped == [i \in DOMAIN kept |->
                      [p |-> kept[i],
                       categoryScore |-> CategoryScore(kept[i], currentParent, currentSub),
                       skuDistance |-> SkuDistance(kept[i], currentSKU)]]
        sorted == SortByRelevance(slice(mapped, maxResults))
    IN  [i \in DOMAIN sorted |-> sorted[i].p]

getRelevantProducts(currentProduct, allProducts, maxResults) ==
    LET currentParent == currentProduct.rec[KATEGORI_PARENT]
        currentSub == currentProduct.rec[KATEGORI_SUB]
        currentSKU == parseInt(currentProduct.rec[ARTIKELNUMMER])
        kept == SelectSeq(allProducts, LAMBDA p : Eligible(p, currentProduct))
        mapped == [i \in DOMAIN kept |->
                      [p |-> kept[i],
                       categoryScore |-> CategoryScore(kept[i], currentParent, currentSub),
                       skuDistance |-> SkuDistance(kept[i], currentSKU)]]
        sorted == slice(SortByRelevance(mapped), maxResults)
    IN  [i \in DOMAIN sorted |-> sorted[i].p]

(***************************************************************************)
(* The detail view over a record set                                       *)
(***************************************************************************)
MaxRemoved == 2        \* most records left out of RelBase in a list of SpecRelevant

CatP == <<"B", "a", "d">>
CatQ == <<"K", "ö", "k">>
SubS == <<"S", "k", "å", "p">>
SubT == <<"L", "å", "d", "a">>
\* records with identifiers that are near, far, equal, padded, not numeric,
\* white space, empty and sixteen digits long; the last record has the
\* categories of the first in another letter case, without the diacritic and
\* with a trailing space
RelBase ==
    << MkProduct(<<"a">>, <<"1", "0", "0">>, CatP, SubS),
       MkProduct(<<"b">>, <<"1", "0", "3">>, CatP, SubS),
       MkProduct(<<"c">>, <<" ", "9", "7">>, CatP, SubS),
       MkProduct(<<"d">>, <<"1", "0", "1">>, CatP, SubT),
       MkProduct(<<"e">>, <<"x", "1">>, CatP, SubS),
       MkProduct(<<"f">>, <<>>, CatP, SubS),
       MkProduct(<<"g">>, <<"1", "0", "0">>, CatQ, SubS),
       MkProduct(<<"h">>, <<"9", "9", "9", "9", "9", "9", "9", "9",
                            "9", "9", "9", "9", "9", "9", "9", "9">>, CatP, SubS),
       MkProduct(<<"j">>, <<" ">>, CatQ, SubT),
       MkProduct(<<"k">>, <<"1", "0", "2">>, <<"b", "a", "d", " ">>, <<"S", "K", "A", "P">>) >>

Reverse(s) == [i \in DOMAIN s |-> s[Len(s) + 1 - i]]
\* s without the elements at the indices of gone
Without(s, gone) == SelectSeq([i \in DOMAIN s |-> <<i, s[i]>>], LAMBDA e : e[1] \notin gone)
Values(es) == [i \in DOMAIN es |-> es[i][2]]
RelLists ==
    { Values(Without(b, gone)) :
        b \in {RelBase, Reverse(RelBase)},
        gone \in { g \in SUBSET DOMAIN RelBase : Cardinality(g) <= MaxRemoved } }

\* a record of the list is opened in the detail view, which covers the list
\* until it is closed
OpenDetail(i) ==
    /\ selectedProduct = NULL
    /\ selectedProduct' = Obj(i)
    /\ relevant' = getRelevantProducts(Obj(i), AllObjs, DefaultMaxResults)
    /\ UNCHANGED <<searchVars, appVars, headerVars, aliasVars>>
\* the detail view is given a copy of a record of the list
OpenCopy(i) ==
    /\ selectedProduct = NULL
    /\ selectedProduct' = CopyOf(i)
    /\ relevant' = getRelevantProducts(CopyOf(i), AllObjs, DefaultMaxResults)
    /\ UNCHANGED <<searchVars, appVars, headerVars, aliasVars>>
\* onClose: if (!product) return null
CloseDetail ==
    /\ selectedProduct # NULL
    /\ selectedProduct' = NULL
    /\ relevant' = <<>>
    /\ UNCHANGED <<searchVars, appVars, headerVars, aliasVars>>

InitRelevant ==
    /\ search = <<>>
    /\ products \in RelLists
    /\ filtered = products
    /\ mode = "idle"
    /\ InitApp
    /\ InitHeaderIdle
    /\ InitDetailIdle
    /\ InitAliasIdle

NextRelevant ==
    \/ \E i \in DOMAIN products : OpenDetail(i)
    \/ \E i \in DOMAIN products : OpenCopy(i)
    \/ CloseDetail

SpecRelevant == InitRelevant /\ [][NextRelevant]_vars

(***************************************************************************)
(* Import claims                                                           *)
(***************************************************************************)
\* a header with its letters in lower case and without white space, hyphens
\* and parentheses
FoldHeader(h) == SelectSeq(toLowerCase(h), LAMBDA c : c \notin {" ", "\t", "-", "(", ")"})
FoldedFields == [j \in DOMAIN PRODUCT_FIELDS |-> FoldHeader(PRODUCT_FIELDS[j])]
\* the canonical fields that h is, up to letter case, white space, hyphens and
\* parentheses
VariantOf(h) ==
    LET fh == FoldHeader(h)
    IN  { PRODUCT_FIELDS[j] : j \in { j \in DOMAIN PRODUCT_FIELDS : FoldedFields[j] = fh } }
\* for the headers keys: the canonical fields of each
Targets(keys) == [j \in DOMAIN keys |-> VariantOf(keys[j])]
CallsOf(u) == { i \in DOMAIN onDataCalls : onDataCalls[i][1] = u }

\* C3: the import of a file with rows succeeds and hands over one record per
\* row, in the order of the rows, whatever the headers are.
C3_RecordPerRow ==
    \A u \in DOMAIN uploads :
        (u \notin reads /\ uploads[u].ok /\ Len(uploads[u].rows) > 0) =>
            /\ errorMessage = <<>>
            /\ Cardinality(CallsOf(u)) = 1
            /\ LET f == uploads[u]
                   out == onDataCalls[CHOOSE i \in CallsOf(u) : TRUE][2]
                   target == Targets(f.keys)
                   \* the columns that alone stand for a canonical field
                   single == { j \in DOMAIN f.keys :
                                 /\ target[j] # {}
                                 /\ \A k \in DOMAIN f.keys : target[k] = target[j] => k = j }
               IN  /\ Len(out) = Len(f.rows)
                   /\ \A i \in DOMAIN f.rows : \A j \in single : \A F \in target[j] :
                         out[i][F] = f.rows[i][f.keys[j]]
                   /\ IF timers # <<>> THEN Head(timers).rows = out ELSE products = out

\* a file of two different rows under a partly matching header list, committed
C3_Witness ==
    /\ uploads # <<>>
    /\ Len(uploads[1].rows) = 2
    /\ Len(products) = 2
    /\ products[1] # products[2]
    /\ validation # NULL
    /\ validation.missing # <<>>
    /\ validation.extra # <<>>

\* C4: every record the import produces has exactly the 32 canonical fields as
\* keys; a canonical field without a source column is the empty string, and no
\* unmapped column is a key.
C4_CanonicalKeys ==
    \A c \in DOMAIN onDataCalls :
        LET f == uploads[onDataCalls[c][1]]
            out == onDataCalls[c][2]
            target == Targets(f.keys)
            covered == UNION { target[j] : j \in DOMAIN f.keys }
        IN  \A i \in DOMAIN out :
                /\ DOMAIN out[i] = Range(PRODUCT_FIELDS)
                /\ Cardinality(DOMAIN out[i]) = 32
                /\ \A F \in Range(PRODUCT_FIELDS) \ covered : out[i][F] = <<>>
                /\ \A j \in DOMAIN f.keys : target[j] = {} => f.keys[j] \notin DOMAIN out[i]

\* records produced from a file that has an unmapped column, a mapped column
\* with a value, and no column for some canonical field
C4_Witness ==
    /\ onDataCalls # <<>>
    /\ LET f == uploads[onDataCalls[1][1]]
           out == onDataCalls[1][2]
           target == Targets(f.keys)
       IN  /\ \E j \in DOMAIN f.keys : target[j] = {}
           /\ \E F \in Range(PRODUCT_FIELDS) : \A j \in DOMAIN f.keys : F \notin target[j]
           /\ \E F \in Range(PRODUCT_FIELDS) : out[1][F] # <<>>

\* C7: missing is the set of canonical fields no header maps to, extra the set
\* of headers that map to no canonical field; the headers Namn, Artikelnummer
\* give the schema without these two as missing and nothing as extra.
C7_ValidationReport ==
    (validation # NULL /\ Len(uploads) = 1) =>
        LET keys == uploads[1].keys
            target == Targets(keys)
            covered == UNION { target[j] : j \in DOMAIN keys }
        IN  /\ Range(validation.missing) = Range(PRODUCT_FIELDS) \ covered
            /\ Range(validation.extra) = { keys[j] : j \in { j \in DOMAIN keys : target[j] = {} } }
            /\ Len(validation.missing) = Cardinality(Range(validation.missing))
            /\ Len(validation.extra) = Cardinality(Range(validation.extra))
            /\ keys = <<NAMN, ARTIKELNUMMER>> =>
                  /\ Range(validation.missing) = Range(PRODUCT_FIELDS) \ {NAMN, ARTIKELNUMMER}
                  /\ Len(validation.missing) = 30
                  /\ validation.extra = <<>>

\* the report of a file whose headers are Namn and Artikelnummer
C7_Witness ==
    /\ validation # NULL
    /\ Len(uploads) = 1
    /\ uploads[1].keys = <<NAMN, ARTIKELNUMMER>>
    /\ Len(validation.missing) = 30

\* what mapFields made of the header of SpecHeader
HeaderTarget == ObjGet(headerMap, header)
FAERG == <<"F", "ä", "r", "g">>

IsEmptyUpload(u) == uploads[u].ok /\ Len(uploads[u].rows) = 0
EmptyFileError == <<"Kunde inte läsa filen: ", "Filen innehåller inga rader.">>

\* C5: the import of a file without rows reports an error, never calls onData,
\* and none of its steps (the start of the upload, the end of the read) changes
\* the product list.
C5_EmptyImportFails ==
    /\ [](\A c \in DOMAIN onDataCalls : ~IsEmptyUpload(onDataCalls[c][1]))
    /\ [][ /\ \A u \in reads \ reads' :
                IsEmptyUpload(u) =>
                    /\ errorMessage' = EmptyFileError
                    /\ onDataCalls' = onDataCalls
                    /\ timers' = timers
                    /\ products' = products
           /\ (Len(uploads') > Len(uploads) /\ uploads'[Len(uploads')] = EmptyFile) =>
                    /\ products' = products
                    /\ onDataCalls' = onDataCalls ]_vars

\* the error of an empty file on display over a product list of an earlier upload
C5_Witness ==
    /\ errorMessage = EmptyFileError
    /\ products # <<>>
    /\ reads = {}
    /\ \E u \in DOMAIN uploads : IsEmptyUpload(u)

(***************************************************************************)
(* Search claims                                                           *)
(***************************************************************************)
\* an entry of filtered without its score annotation
Unscore(e) == [k \in DOMAIN e \ {SCORE_KEY} |-> e[k]]
\* the white-space separated tokens of a normalized string, as a set
TokensOf(n) ==
    { SubSeq(n, i, j) : <<i, j>> \in
        { ij \in (DOMAIN n) \X (DOMAIN n) :
            /\ ij[1] <= ij[2]
            /\ \A k \in ij[1]..ij[2] : n[k] # " "
            /\ ij[1] = 1 \/ n[ij[1] - 1] = " "
            /\ ij[2] = Len(n) \/ n[ij[2] + 1] = " " } }
\* the four normalized fields the search compares
SearchFields == {ARTIKELNUMMER, KATEGORI_SUB, KATEGORI_PARENT, NAMN}
TokenHits(p, t) == \E f \in SearchFields : includes(normalize(p[f]), t)
Qualifies(p, s) == \A t \in TokensOf(normalize(s)) : TokenHits(p, t)
RECURSIVE SumSeq(_)
SumSeq(s) == IF s = <<>> THEN 0 ELSE Head(s) + SumSeq(Tail(s))

\* C1: for a query with at least one token, a record of the product list is in
\* the search result if and only if every token of the normalized query is a
\* substring of one of its four normalized fields; the result holds one entry
\* per such record and nothing else.
C1_SearchAndSemantics ==
    (search # <<>> /\ TokensOf(normalize(search)) # {}) =>
        /\ \A p \in Range(products) :
              (\E e \in Range(filtered) : Unscore(e) = p) <=> Qualifies(p, search)
        /\ \A e \in Range(filtered) : Unscore(e) \in Range(products)
        /\ Len(filtered) =
              Cardinality({ i \in DOMAIN products : Qualifies(products[i], search) })

\* a two-token query under which one record matches both tokens and is kept and
\* another record matches only one of them and is dropped
C1_Witness ==
    /\ Cardinality(TokensOf(normalize(search))) = 2
    /\ Len(products) = 2
    /\ Len(filtered) = 1
    /\ \E p \in Range(products) :
          /\ ~Qualifies(p, search)
          /\ \E t \in TokensOf(normalize(search)) : TokenHits(p, t)

\* the priority table of a mode: field and score, highest priority first
PriorityTable(m) ==
    IF m = "sku"
    THEN << <<ARTIKELNUMMER, 100>>, <<KATEGORI_SUB, 90>>, <<KATEGORI_PARENT, 80>>, <<NAMN, 70>> >>
    ELSE << <<KATEGORI_SUB, 100>>, <<KATEGORI_PARENT, 90>>, <<ARTIKELNUMMER, 80>>, <<NAMN, 70>> >>
MatchingRows(p, t, m) ==
    { i \in 1..4 : includes(normalize(p[PriorityTable(m)[i][1]]), t) }
FirstMatchScore(p, t, m) ==
    IF MatchingRows(p, t, m) = {} THEN 0
    ELSE PriorityTable(m)[CHOOSE i \in MatchingRows(p, t, m) :
                             \A j \in MatchingRows(p, t, m) : i <= j][2]

\* C2: the score of a token is the score of the first field of the mode's
\* priority order that contains it, 0 when none does; the scores of several
\* matching fields are never added.
C2_FirstMatchScore ==
    \A p \in Range(products) : \A t \in Range(QueryWords(search)) :
        \A m \in {"sku", "name"} :
            getRelevancy(p, t, m) = FirstMatchScore(p, t, m)

\* a token found in all four fields of a record, in a render of either mode
C2_Witness ==
    /\ mode \in {"sku", "name"}
    /\ \E p \in Range(products) : \E t \in Range(QueryWords(search)) :
          /\ Cardinality(MatchingRows(p, t, mode)) = 4
          /\ getRelevancy(p, t, mode) = 100

\* C9: a token scores above zero in identifier mode exactly when it does in
\* name mode, so both modes return the same records.
C9_ModeKeepsEligibility ==
    /\ \A p \in Range(products) : \A t \in Range(QueryWords(search)) :
          getRelevancy(p, t, "sku") > 0 <=> getRelevancy(p, t, "name") > 0
    /\ search # <<>> =>
          { Unscore(e) : e \in Range(Ranked(products, QueryWords(search), "sku")) }
          = { Unscore(e) : e \in Range(Ranked(products, QueryWords(search), "name")) }

\* a record kept by a render whose two modes score it differently
C9_Witness ==
    /\ mode \in {"sku", "name"}
    /\ \E e \in Range(filtered) :
          \E t \in Range(QueryWords(search)) :
              getRelevancy(Unscore(e), t, "sku") # getRelevancy(Unscore(e), t, "name")

\* C10: the score of a retained record is the sum of its per-token scores, so
\* with k tokens it lies between 70*k and 100*k and is never 0.
C10_TotalScoreIsSum ==
    search # <<>> =>
        \A e \in Range(filtered) :
            LET ws == QueryWords(search)
                k == Len(ws)
            IN  /\ e[SCORE_KEY] = SumSeq([i \in 1..k |-> getRelevancy(Unscore(e), ws[i], mode)])
                /\ 70 * k <= e[SCORE_KEY]
                /\ e[SCORE_KEY] <= 100 * k
                /\ e[SCORE_KEY] > 0

\* a record kept under two tokens that score differently
C10_Witness ==
    /\ Len(QueryWords(search)) = 2
    /\ \E e \in Range(filtered) : e[SCORE_KEY] \in {150, 160, 170, 180, 190}

(***************************************************************************)
(* Result order claims                                                     *)
(***************************************************************************)
\* the annotated record of the stored record at index i, for the current query
ScoredAt(i) == Annotate(products[i], QueryWords(search), QueryMode(search))
Retained == { i \in DOMAIN products : ScoredAt(i)[SCORE_KEY] > 0 }
\* the place of the stored record i in a list ordered by descending score,
\* records of equal score in stored order
PlaceOf(i) ==
    1 + Cardinality({ j \in Retained :
            \/ ScoredAt(j)[SCORE_KEY] > ScoredAt(i)[SCORE_KEY]
            \/ ScoredAt(j)[SCORE_KEY] = ScoredAt(i)[SCORE_KEY] /\ j < i })

\* C11: for a non-empty query the results are in descending order of total
\* score, and results of equal total score are in the order the records have
\* in the product list.
C11_DescendingStable ==
    search # <<>> =>
        /\ Len(filtered) = Cardinality(Retained)
        /\ \A i \in 1..Len(filtered) - 1 :
               filtered[i][SCORE_KEY] >= filtered[i + 1][SCORE_KEY]
        /\ \A i \in Retained : filtered[PlaceOf(i)] = ScoredAt(i)

\* two different records tie and keep their stored order behind a record
\* that was stored after them but scores higher
C11_Witness ==
    /\ Len(filtered) = 3
    /\ filtered[1] = ScoredAt(3)
    /\ filtered[2] = ScoredAt(1)
    /\ filtered[3] = ScoredAt(2)
    /\ filtered[1][SCORE_KEY] > filtered[2][SCORE_KEY]
    /\ filtered[2][SCORE_KEY] = filtered[3][SCORE_KEY]
    /\ products[1] # products[2]

\* C12: with the empty query the result is the product list itself: every
\* record, in stored order, none with a score annotation.
C12_EmptyQueryAll ==
    search = <<>> =>
        /\ filtered = products
        /\ \A i \in DOMAIN filtered : SCORE_KEY \notin DOMAIN filtered[i]

\* an import of two rows was committed while the search box is empty
C12_Witness ==
    /\ search = <<>>
    /\ onDataCalls # <<>>
    /\ Len(products) = 2
    /\ filtered = products
    /\ products[1] # products[2]

\* C13: a search changes nothing but its result: the result is a function of
\* the query and the product list alone (the same query over the same list
\* gives the same ordered result), no step of a search changes the stored
\* list, and no stored record carries the _score annotation.
C13_SearchIsPure ==
    /\ [](filtered = Filtered(products, search))
    /\ [](\A i \in DOMAIN products : SCORE_KEY \notin DOMAIN products[i])
    /\ [][products' = products]_vars

\* a search that reordered and annotated its results, over the stored list
C13_Witness ==
    /\ Len(filtered) = 3
    /\ Unscore(filtered[1]) = products[3]
    /\ SCORE_KEY \in DOMAIN filtered[1]
    /\ SCORE_KEY \notin DOMAIN products[3]

(***************************************************************************)
(* Query mode claims                                                       *)
(***************************************************************************)
AsciiLetters == Range(LowerAscii) \cup Range(UpperAscii)
\* the characters of an identifier token: word characters and the hyphen
TokenChars == AsciiLetters \cup Digits \cup {"_", "-"}

\* C8: a query is identifier-like exactly when it holds a digit or is one token
\* of fewer than 10 word characters or hyphens; nine letters are identifier-like,
\* ten letters are name-like.
C8_QueryMode ==
    search # <<>> =>
        /\ mode = "sku" <=>
              \/ Range(search) \cap Digits # {}
              \/ Range(search) \subseteq TokenChars /\ Len(search) < 10
        /\ mode \in {"sku", "name"}
        /\ (Len(search) = 9 /\ Range(search) \subseteq AsciiLetters) => mode = "sku"
        /\ (Len(search) = 10 /\ Range(search) \subseteq AsciiLetters) => mode = "name"

\* ten letters typed: the first query over the threshold
C8_Witness ==
    /\ Len(search) = 10
    /\ Range(search) \subseteq AsciiLetters
    /\ mode = "name"

(***************************************************************************)
(* Round trip claim                                                        *)
(***************************************************************************)
\* the second upload is the first import's records written out again
IsReImport == Len(uploads) = 2 /\ onDataCalls # <<>> /\ uploads[2] = Exported(onDataCalls[1][2])

\* C18: importing the records of an import, written out as rows under the
\* canonical headers in canonical order, gives the same records again, with
\* nothing missing and nothing extra in the validation report.
C18_RoundTrip ==
    (IsReImport /\ 2 \notin reads) =>
        /\ Len(onDataCalls) = 2
        /\ onDataCalls[2][2] = onDataCalls[1][2]
        /\ validation = [missing |-> <<>>, extra |-> <<>>]
        /\ warningMessage = <<>>
        /\ errorMessage = <<>>
        /\ timers = <<>> => products = onDataCalls[1][2]

\* the records of a file with a missing field and an extra header were
\* imported again and committed
C18_Witness ==
    /\ IsReImport
    /\ reads = {}
    /\ timers = <<>>
    /\ uploads[1].keys # PRODUCT_FIELDS
    /\ Len(uploads[1].keys) = 3
    /\ Len(products) = 2
    /\ products[1] # products[2]
    /\ products = onDataCalls[2][2]

(***************************************************************************)
(* Hand-over and commit claims                                             *)
(***************************************************************************)
Last(s) == s[Len(s)]
\* the validation report of upload u
ReportOf(u) == validateColumns(mapFields(uploads[u].keys))
WarningOf(val) ==
    IF val.missing = <<>> THEN <<>> ELSE <<"Varning: Saknade fält i filen: ", val.missing>>

\* C19 as stated: whenever the validation report of an import is published,
\* the product list holds the records of that import.
C19_ReportNeverAhead ==
    validation # NULL =>
        /\ commits # <<>>
        /\ Last(commits) = Last(onDataCalls)[1]

\* C19, amended: the validation report and the warning are published in the
\* very step that hands the import's records to onData, and a failed import
\* publishes neither; the product list is replaced later, by the timer, and
\* always holds all records of one import or of none.
C19_HandedOverTogether ==
    /\ IF onDataCalls = <<>>
       THEN validation = NULL /\ warningMessage = <<>>
       ELSE /\ validation = ReportOf(Last(onDataCalls)[1])
            /\ warningMessage = WarningOf(validation)
    /\ IF commits = <<>>
       THEN products = <<>>
       ELSE \E c \in DOMAIN onDataCalls :
                onDataCalls[c][1] = Last(commits) /\ products = onDataCalls[c][2]

\* the report of an import with missing fields is published and its records
\* wait for the timer, the product list still empty
C19_Witness ==
    /\ validation # NULL
    /\ validation.missing # <<>>
    /\ warningMessage # <<>>
    /\ timers # <<>>
    /\ commits = <<>>
    /\ products = <<>>

\* C20: the product list goes from the records of one upload to those of an
\* upload started later, never back to those of an upload started earlier.
C20_NewerSupersedes ==
    \A i, j \in DOMAIN commits : i < j => commits[i] <= commits[j]

(***************************************************************************)
(* Recommendation claims                                                   *)
(***************************************************************************)
DetailOpen == selectedProduct # NULL
\* the records that may be recommended: other objects than the focal one,
\* with an identifier that is not the empty string
Candidates ==
    { i \in DOMAIN products :
        i # selectedProduct.ref /\ products[i][ARTIKELNUMMER] # <<>> }
FocalNumber == parseInt(selectedProduct.rec[ARTIKELNUMMER])
CatOf(i) ==
    CategoryScore(Obj(i), selectedProduct.rec[KATEGORI_PARENT], selectedProduct.rec[KATEGORI_SUB])
DistOf(i) == SkuDistance(Obj(i), FocalNumber)
\* j comes before i: higher category score, then smaller distance, then
\* earlier in the list
ComesBefore(j, i) ==
    \/ CatOf(j) > CatOf(i)
    \/ CatOf(j) = CatOf(i) /\ NumLess(DistOf(j), DistOf(i))
    \/ CatOf(j) = CatOf(i) /\ DistOf(j) = DistOf(i) /\ j < i
RankOf(i) == 1 + Cardinality({ j \in Candidates : ComesBefore(j, i) })
PositionsOf(i) == { k \in DOMAIN relevant : relevant[k].ref = i }
Least(a, b) == IF a < b THEN a ELSE b

\* C14: the recommendations of a focal record never contain the focal record
\* itself nor a record whose identifier is empty.
C14_ExcludesFocalAndBlank ==
    DetailOpen =>
        \A k \in DOMAIN relevant :
            /\ relevant[k].ref # selectedProduct.ref
            /\ relevant[k].rec[ARTIKELNUMMER] # <<>>
            /\ relevant[k] = Obj(relevant[k].ref)

\* a record of a list that also holds a record without identifier is opened
\* and has recommendations
C14_Witness ==
    /\ DetailOpen
    /\ selectedProduct.ref \in DOMAIN products
    /\ \E i \in DOMAIN products : i # selectedProduct.ref /\ products[i][ARTIKELNUMMER] = <<>>
    /\ relevant # <<>>

\* C15: recommendations are in descending category score, within equal
\* category score in ascending identifier distance, and within equal score and
\* distance in list order; so a candidate that shares parent and sub category
\* with the focal record comes before every candidate that shares neither.
C15_RelevanceOrder ==
    DetailOpen =>
        /\ \A k, l \in DOMAIN relevant :
               k < l => LET i == relevant[k].ref
                            j == relevant[l].ref
                        IN  /\ CatOf(i) >= CatOf(j)
                            /\ CatOf(i) = CatOf(j) => ~NumLess(DistOf(j), DistOf(i))
                            /\ CatOf(i) = CatOf(j) /\ DistOf(i) = DistOf(j) => i < j
        /\ \A i, j \in Candidates :
               (CatOf(i) = 2 /\ CatOf(j) = 0 /\ PositionsOf(j) # {}) =>
                   \E k \in PositionsOf(i) : \A l \in PositionsOf(j) : k < l

\* a far record of the focal record's categories stands before a record of
\* another parent category with the focal record's own number, and two records
\* equal on both keys stand in list order
C15_Witness ==
    /\ DetailOpen
    /\ \E k, l \in DOMAIN relevant :
           /\ k < l
           /\ CatOf(relevant[k].ref) = 2 /\ CatOf(relevant[l].ref) = 0
           /\ NumLess(DistOf(relevant[l].ref), DistOf(relevant[k].ref))
    /\ \E k \in DOMAIN relevant : k + 1 \in DOMAIN relevant
           /\ CatOf(relevant[k].ref) = CatOf(relevant[k + 1].ref)
           /\ DistOf(relevant[k].ref) = DistOf(relevant[k + 1].ref)
           /\ relevant[k].rec # relevant[k + 1].rec

\* C16: the recommendations are the first maxResults = 6 of all candidates
\* in sorted order: min(6, number of candidates) records, cut after sorting.
C16_FirstSixOfSorted ==
    DetailOpen =>
        /\ Len(relevant) = Least(DefaultMaxResults, Cardinality(Candidates))
        /\ \A i \in Candidates :
               IF RankOf(i) <= DefaultMaxResults
               THEN relevant[RankOf(i)] = Obj(i)
               ELSE PositionsOf(i) = {}

\* seven candidates, and the one cut off is among the first six of the list
C16_Witness ==
    /\ DetailOpen
    /\ Cardinality(Candidates) = DefaultMaxResults + 1
    /\ Len(relevant) = DefaultMaxResults
    /\ \E i \in Candidates :
           /\ RankOf(i) = DefaultMaxResults + 1
           /\ Cardinality({ j \in Candidates : j < i }) < DefaultMaxResults - 1

\* the identifier of the focal record or of the candidate i is no integer
Unparseable(i) == isNaN(FocalNumber) \/ isNaN(parseInt(products[i][ARTIKELNUMMER]))

CategoryFold(s) == trim(RemoveCombining(normalizeNFD(toLowerCase(s))))
FocalParent == selectedProduct.rec[KATEGORI_PARENT]
FocalSub == selectedProduct.rec[KATEGORI_SUB]

\* C21 as stated: the category score of a candidate is 2 when its parent and
\* sub category both equal the focal record's, 1 when only the parent does,
\* 0 otherwise, values counting as equal when they differ only in letter
\* case, diacritics or surrounding white space.
C21_NormalizedCategoryScore ==
    DetailOpen =>
        \A i \in Candidates :
            LET parentEq == CategoryFold(products[i][KATEGORI_PARENT]) = CategoryFold(FocalParent)
                subEq == CategoryFold(products[i][KATEGORI_SUB]) = CategoryFold(FocalSub)
            IN  CatOf(i) = IF parentEq /\ subEq THEN 2 ELSE IF parentEq THEN 1 ELSE 0

\* C21, amended: the same table with equality of the stored strings as they
\* are (===): values that differ in letter case, diacritics or surrounding
\* white space are different categories.
C21_ExactCategoryScore ==
    DetailOpen =>
        \A i \in Candidates :
            LET parentEq == products[i][KATEGORI_PARENT] = FocalParent
                subEq == products[i][KATEGORI_SUB] = FocalSub
            IN  CatOf(i) = IF parentEq /\ subEq THEN 2 ELSE IF parentEq THEN 1 ELSE 0

\* candidates with each of the three scores are recommended, and one of 0
\* has the focal record's categories in another spelling
C21_Witness ==
    /\ DetailOpen
    /\ \A s \in 0..2 : \E k \in DOMAIN relevant : CatOf(relevant[k].ref) = s
    /\ \E k \in DOMAIN relevant :
           /\ CatOf(relevant[k].ref) = 0
           /\ CategoryFold(relevant[k].rec[KATEGORI_PARENT]) = CategoryFold(FocalParent)
           /\ CategoryFold(relevant[k].rec[KATEGORI_SUB]) = CategoryFold(FocalSub)


(***************************************************************************)
(* The alias table over a growing schema: FIELD_ALIASES is built by one    *)
(* reduce over the declared fields, so a field added to the schema adds its *)
(* two keys after those of every field declared before it                  *)
(***************************************************************************)
MaxSchema == 4         \* most fields of a schema of SpecAlias

\* two fields of PRODUCT_FIELDS and three additions whose keys meet theirs
SchemaFields ==
    { PRODUCT_FIELDS[1],
      <<"N", "A", "M", "N">>,
      PRODUCT_FIELDS[30],
      <<"P", "r", "o", "d", "u", "k", "t", " ", "U", "R", "L">>,
      <<"P", "r", "o", "d", "u", "k", "t", "(", "u", "r", "l", ")">> }

\* a field is appended to the schema and the module is loaded again
DeclareField(f) ==
    /\ Len(schema) < MaxSchema
    /\ f \notin Range(schema)
    /\ schema' = Append(schema, f)
    /\ aliases' = BuildAliases(schema')
    /\ UNCHANGED <<searchVars, appVars, headerVars, detailVars>>

InitAlias ==
    /\ search = <<>>
    /\ products = <<>>
    /\ filtered = <<>>
    /\ mode = "idle"
    /\ InitApp
    /\ InitHeaderIdle
    /\ InitDetailIdle
    /\ InitAliasIdle

NextAlias == \E f \in SchemaFields : DeclareField(f)

SpecAlias == InitAlias /\ [][NextAlias]_vars

(***************************************************************************)
(* Alias table claim                                                       *)
(***************************************************************************)
\* the two keys a field registers
KeysOfField(f) == { toLowerCase(f), toLowerCase(StripPunctuation(f)) }
\* the places of the schema whose field registers key
Registrars(key) == { i \in DOMAIN schema : key \in KeysOfField(schema[i]) }
\* a key that two distinct fields of the schema register
Collides(key) == Cardinality(Registrars(key)) >= 2
Greatest(S) == CHOOSE x \in S : \A y \in S : y <= x
Smallest(S) == CHOOSE x \in S : \A y \in S : x <= y

\* C22 as stated: a key that two distinct fields of the schema generate maps
\* to the field declared first.
C22_FirstWins ==
    \A n \in DOMAIN aliases :
        Collides(aliases[n][1]) =>
            aliases[n][2] = schema[Smallest(Registrars(aliases[n][1]))]

\* C22 as the code has it: the table holds exactly the keys the fields of the
\* schema generate, each once, and a key that two distinct fields generate
\* maps to the field declared last.
C22_LastWins ==
    /\ { aliases[n][1] : n \in DOMAIN aliases }
            = UNION { KeysOfField(schema[i]) : i \in DOMAIN schema }
    /\ \A n, m \in DOMAIN aliases : aliases[n][1] = aliases[m][1] => n = m
    /\ \A n \in DOMAIN aliases :
            aliases[n][2] = schema[Greatest(Registrars(aliases[n][1]))]

\* C22 witness: a schema of three fields or more in which one key is
\* generated by two distinct fields, the later of which the table holds.
C22_Witness ==
    /\ Len(schema) >= 3
    /\ \E n \in DOMAIN aliases :
            /\ Collides(aliases[n][1])
            /\ aliases[n][2] = schema[Greatest(Registrars(aliases[n][1]))]
            /\ aliases[n][2] # schema[Smallest(Registrars(aliases[n][1]))]


(***************************************************************************)
(* Normalization claim                                                     *)
(***************************************************************************)
LowerLetters == Range(LowerAscii) \cup Range(LowerSwedish)
Letters == LowerLetters \cup Range(UpperAscii) \cup Range(UpperSwedish)

\* C23 as stated: the normalized query holds only lower-case letters, digits
\* and single interior spaces, no space at either end, and no character of
\* the query that is neither letter, digit nor space (the underscore among
\* them): each has become a separator.
C23_NormalizedShape ==
    LET n == normalize(search)
    IN  /\ Range(n) \subseteq LowerLetters \cup Digits \cup {" "}
        /\ n # <<>> => n[1] # " " /\ n[Len(n)] # " "
        /\ \A i \in 1..(Len(n) - 1) : ~(n[i] = " " /\ n[i + 1] = " ")
        /\ \A i \in DOMAIN search :
                search[i] \notin Letters \cup Digits \cup {" "} => search[i] \notin Range(n)


(***************************************************************************)
(* Completion claims                                                       *)
(***************************************************************************)
\* C24: whenever an upload has set uploadInProgress, uploadInProgress becomes
\* false again, whether the file parses, is empty or cannot be decoded.
C24_UploadCompletes == (uploadInProgress = TRUE) ~> (uploadInProgress = FALSE)

\* upload u was handed over to handleCsvData
HandedOver(u) == \E c \in DOMAIN onDataCalls : onDataCalls[c][1] = u
\* setProducts was called with the records handed over for upload u
Committed(u) == \E k \in DOMAIN commits : commits[k] = u

\* C25: the records handed over for an upload become the product list, unless
\* those of a later-started upload that was handed over do; a later upload
\* that fails cancels nothing.
C25_NoImportLost ==
    \A u \in 1..MaxUploads :
        HandedOver(u) ~> (\E v \in u..MaxUploads : Committed(v))


(***************************************************************************)
(* The search box over the three records in every order without            *)
(* repetition: the queries of SpecSearch, each compared with its            *)
(* respellings                                                             *)
(***************************************************************************)
InitRespell ==
    /\ search = <<>>
    /\ products \in { p \in OrderLists : \A i, j \in DOMAIN p : i # j => p[i] # p[j] }
    /\ filtered = products
    /\ mode = "idle"
    /\ InitApp
    /\ InitHeaderIdle
    /\ InitDetailIdle
    /\ InitAliasIdle

SpecRespell == InitRespell /\ [][NextSearch]_vars

(***************************************************************************)
(* Respelling claim                                                        *)
(***************************************************************************)
UpperCase(s) == [i \in DOMAIN s |-> UpperChar(s[i])]
Hyphenated(s) == [i \in DOMAIN s |-> IF s[i] = " " THEN "-" ELSE s[i]]
\* other spellings of a query: a space after it, a space before it, in upper
\* case, with hyphens for spaces
Respellings(s) == { s \o <<" ">>, <<" ">> \o s, UpperCase(s), Hyphenated(s) }
SameForm(q) == normalize(q) = normalize(search)

\* C26 as stated, for a query that was typed: every respelling of the query
\* with the same normalized form gives the result on display: the same
\* records, scores and order.
C26_SameFormSameResult ==
    search # <<>> =>
        \A q \in Respellings(search) :
            SameForm(q) => Filtered(products, q) = filtered

\* C26 as the code has it: a respelling with the same normalized form gives
\* the same records, scores and order when it is also of the same mode
\* (isLikelySku reads the query as typed) and is empty exactly when the query
\* is empty.
C26_SameFormAndMode ==
    \A q \in Respellings(search) :
        ( /\ SameForm(q)
          /\ isLikelySku(q) = isLikelySku(search)
          /\ (q = <<>>) = (search = <<>>) )
        => Filtered(products, q) = filtered

\* C26 witness: a query with a different spelling of the same form and mode,
\* giving two or more scored results.
C26_Witness ==
    /\ search # <<>>
    /\ Len(filtered) >= 2
    /\ \E q \in Respellings(search) :
            /\ q # search
            /\ SameForm(q)
            /\ isLikelySku(q) = isLikelySku(search)
            /\ Filtered(products, q) = filtered


(***************************************************************************)
(* Blank query claim                                                       *)
(***************************************************************************)
\* C27: a query that was typed but normalizes to no token (white space only)
\* gives what the empty query gives: every record, in stored order.
C27_BlankQueryAll ==
    (search # <<>> /\ QueryWords(search) = <<>>) => filtered = products


(***************************************************************************)
(* Header accounting claim                                                 *)
(***************************************************************************)
\* C28: once the one upload is handed over, every header of the file either
\* is in the report's extra list or is the column whose cells, row by row, are
\* the values of the one canonical field it stands for: no column is dropped
\* without being reported, two headers for one field included.
C28_HeadersAccounted ==
    (Len(uploads) = 1 /\ onDataCalls # <<>> /\ validation # NULL) =>
        LET f == uploads[1]
            out == onDataCalls[1][2]
            target == Targets(f.keys)
        IN  \A j \in DOMAIN f.keys :
                \/ f.keys[j] \in Range(validation.extra)
                \/ /\ Cardinality(target[j]) = 1
                   /\ \A F \in target[j] : \A i \in DOMAIN f.rows :
                         out[i][F] = f.rows[i][f.keys[j]]


(***************************************************************************)
(* The App with its popup: a click on a row of the list opens it, a click  *)
(* on a related product moves it, and it covers the page until closed      *)
(***************************************************************************)
shouldShowContent ==
    \/ ~uploadInProgress /\ showResults
    \/ ~uploadInProgress /\ Len(products) = 0

\* onClick={() => setSelectedProduct(item)} on a row of filtered.map: with the
\* empty query filtered is products itself, else item is the spread copy
\* {...p, _score} the memo made
ListClick(i) ==
    /\ selectedProduct = NULL
    /\ shouldShowContent
    /\ selectedProduct' = IF search = <<>> THEN Obj(i) ELSE [ref |-> 0, rec |-> filtered[i]]
    /\ relevant' = RenderCard(selectedProduct', AllObjs)
    /\ UNCHANGED <<searchVars, appVars, headerVars, aliasVars>>

\* a click on the related product relevant[k]: onProductSelect(match || rel),
\* match = products.find(p => p["Artikelnummer"] === rel["Artikelnummer"])
onProductSelect(k) ==
    /\ selectedProduct # NULL
    /\ LET rel == relevant[k]
           hits == { i \in DOMAIN products :
                        products[i][ARTIKELNUMMER] = rel.rec[ARTIKELNUMMER] }
       IN  selectedProduct' =
               IF hits = {} THEN rel ELSE Obj(CHOOSE i \in hits : \A j \in hits : i <= j)
    /\ relevant' = RenderCard(selectedProduct', AllObjs)
    /\ UNCHANGED <<searchVars, appVars, headerVars, aliasVars>>

\* the records of SpecCard: identifiers that share their first three
\* characters, one shorter than three, an empty and a blank one, a repeated
\* one; sub-categories equal, different, empty, and equal up to case
CardBase ==
    << MkProduct(<<"a">>, <<"1", "0", "0", "1">>, CatP, SubS),
       MkProduct(<<"b">>, <<"1", "0", "0", "2">>, CatP, SubT),
       MkProduct(<<"c">>, <<"2", "0", "0", "1">>, CatP, SubS),
       MkProduct(<<"d">>, <<"1", "0">>, CatQ, <<>>),
       MkProduct(<<"e">>, <<>>, CatP, SubS),
       MkProduct(<<"f">>, <<"1", "0", "0", "1">>, CatQ, SubT),
       MkProduct(<<"g">>, <<"1", "0", "0", "3">>, CatQ, SubS),
       MkProduct(<<"h">>, <<"1", "0", "0", "4">>, CatP, SubS),
       MkProduct(<<"j">>, <<"1", "0", "0", "5">>, CatP, <<"s", "k", "å", "p">>),
       MkProduct(<<"k">>, <<" ">>, CatP, SubS) >>
CardLists ==
    { Values(Without(b, gone)) :
        b \in {CardBase, Reverse(CardBase)},
        gone \in { g \in SUBSET DOMAIN CardBase : Cardinality(g) <= MaxRemoved } }

\* a committed product list is on display, the popup closed
InitCard ==
    /\ search = <<>>
    /\ products \in CardLists
    /\ filtered = products
    /\ mode = "idle"
    /\ uploadInProgress = FALSE
    /\ showResults = TRUE
    /\ warningMessage = <<>>
    /\ errorMessage = <<>>
    /\ successTrigger = 0
    /\ spinnerTimeoutRef = 0
    /\ timers = <<>>
    /\ validation = NULL
    /\ uploads = <<>>
    /\ reads = {}
    /\ onDataCalls = <<>>
    /\ commits = <<>>
    /\ InitHeaderIdle
    /\ InitDetailIdle
    /\ InitAliasIdle

NextCard ==
    \/ \E i \in DOMAIN filtered : ListClick(i)
    \/ \E k \in DOMAIN relevant : onProductSelect(k)
    \/ CloseDetail

SpecCard == InitCard /\ [][NextCard]_vars

\* the whole App: uploads of two files of three records, a query of the
\* characters that occur in them, the list and the popup; the popup covers
\* the search box and the file input
SelectChars == {"a", "1"}
SelectFiles ==
    { Exported(<<CardBase[1], CardBase[2], CardBase[3]>>),
      Exported(<<CardBase[6], CardBase[7], CardBase[8]>>) }

NextSelect ==
    \/ \E f \in SelectFiles :
            Len(uploads) < MaxUploads /\ selectedProduct = NULL /\ UploadStart(f)
    \/ \E u \in reads : OnLoad(u)
    \/ TimerFire
    \/ \E c \in SelectChars : selectedProduct = NULL /\ TypeChar(c)
    \/ \E i \in DOMAIN filtered : ListClick(i)
    \/ \E k \in DOMAIN relevant : onProductSelect(k)
    \/ CloseDetail

SpecSelect == Init /\ [][NextSelect]_vars

(***************************************************************************)
(* Selection claim                                                         *)
(***************************************************************************)
\* C29: the selected product is null or an object of the current product
\* list, after a click on a row, a click on a related product and the commit
\* of an upload.
C29_SelectedIsListed ==
    selectedProduct = NULL \/ \E i \in DOMAIN products : selectedProduct = Obj(i)

(***************************************************************************)
(* Related list claim (ProductCard)                                        *)
(***************************************************************************)
FocalSku == selectedProduct.rec[ARTIKELNUMMER]
FocalSubcat == selectedProduct.rec[KATEGORI_SUB]
Smaller(a, b) == IF a < b THEN a ELSE b
\* the identifier of record i begins with the first three characters of the
\* focal identifier (with all of them when there are fewer)
SharesPrefix(i) ==
    LET n == Smaller(3, Len(FocalSku))
    IN  /\ Len(products[i][ARTIKELNUMMER]) >= n
        /\ \A c \in 1..n : products[i][ARTIKELNUMMER][c] = FocalSku[c]
\* the records the popup may list for the focal record
Related ==
    { i \in DOMAIN products :
        /\ products[i][ARTIKELNUMMER] # <<>>
        /\ products[i][ARTIKELNUMMER] # FocalSku
        /\ \/ FocalSku # <<>> /\ SharesPrefix(i)
           \/ FocalSubcat # <<>> /\ products[i][KATEGORI_SUB] = FocalSubcat }

\* C30: the related list of the popup has at most 6 entries, records of the
\* product list in list order; each has a non-empty identifier that is not
\* the focal one, and shares the first three characters of a non-empty focal
\* identifier or has the focal record's non-empty sub-category; they are the
\* first such records of the list.
C30_RelatedList ==
    DetailOpen =>
        /\ Len(relevant) <= 6
        /\ Len(relevant) = Smaller(6, Cardinality(Related))
        /\ \A k \in DOMAIN relevant :
              /\ relevant[k].ref \in Related
              /\ relevant[k] = Obj(relevant[k].ref)
              /\ Cardinality({ i \in Related : i < relevant[k].ref }) = k - 1

\* C30 witness: more than six records qualify, the list is cut to six, and it
\* holds a record that qualifies by its identifier only and one that
\* qualifies by its sub-category only.
C30_Witness ==
    /\ DetailOpen
    /\ Cardinality(Related) > 6
    /\ Len(relevant) = 6
    /\ \E k \in DOMAIN relevant :
            SharesPrefix(relevant[k].ref) /\ relevant[k].rec[KATEGORI_SUB] # FocalSubcat
    /\ \E k \in DOMAIN relevant :
            ~SharesPrefix(relevant[k].ref) /\ relevant[k].rec[KATEGORI_SUB] = FocalSubcat

====
